---- MODULE Spec2Model ----
(***************************************************************************)
(* Model of the two hardware-control daemons of the repository:            *)
(*   boreas      (daemons/boreas/src/main.rs)      fan control via the EC  *)
(*   prometheus  (daemons/prometheus/src/main.rs)  CPU power via sysfs     *)
(* A behaviour is one run of one daemon process (chosen in Init): main()   *)
(* runs the hardware identity gate, builds the controller and the service, *)
(* registers on the bus, and then serves D-Bus method calls, each call a   *)
(* task that advances one await point / one system call at a time.         *)
(* Strings the code inspects (identity file, profile names, sysfs values)  *)
(* are sequences of one-character strings.                                 *)
(***************************************************************************)
EXTENDS Integers, Sequences, FiniteSets, TLC

\* ------------------------------------------------------------------------
\* Bounds of the model
\* ------------------------------------------------------------------------
\* Number of D-Bus method calls accepted in one concurrent run.
MaxCalls == 2
\* Largest number of per-CPU sysfs files a glob pattern matches.
MaxCpus == 2

\* The tasks serving inbound method calls.
Callers == {1, 2}

\* ------------------------------------------------------------------------
\* Strings
\* ------------------------------------------------------------------------
Upper == <<"A","B","C","D","E","F","G","H","I","J","K","L","M",
           "N","O","P","Q","R","S","T","U","V","W","X","Y","Z">>
Lower == <<"a","b","c","d","e","f","g","h","i","j","k","l","m",
           "n","o","p","q","r","s","t","u","v","w","x","y","z">>

\* char::to_lowercase on the ASCII letters; every other character is kept.
LowerChar(ch) ==
    IF \E i \in 1..26 : Upper[i] = ch
    THEN Lower[CHOOSE i \in 1..26 : Upper[i] = ch]
    ELSE ch

to_lowercase_identity(s) == s

\* str::to_lowercase
to_lowercase(s) == [i \in 1..Len(s) |-> LowerChar(s[i])]

IsWhitespace(ch) == ch \in {" ", "\n", "\t", "\r"}

RECURSIVE trim_start(_)
trim_start(s) ==
    IF s # <<>> /\ IsWhitespace(Head(s)) THEN trim_start(Tail(s)) ELSE s

RECURSIVE trim_end(_)
trim_end(s) ==
    IF s # <<>> /\ IsWhitespace(s[Len(s)])
    THEN trim_end(SubSeq(s, 1, Len(s) - 1))
    ELSE s

\* str::trim
trim(s) == trim_end(trim_start(s))

\* str::contains(pattern)
contains(s, pattern) ==
    \E i \in 1..(Len(s) - Len(pattern) + 1) :
        SubSeq(s, i, i + Len(pattern) - 1) = pattern

\* ------------------------------------------------------------------------
\* Hardware identity gate (both daemons, identical code)
\* ------------------------------------------------------------------------
SUPPORTED_MODELS ==
    { <<"N","i","t","r","o"," ","A","N","5","1","5","-","5","7">> }

\* Contents the identity file /sys/class/dmi/id/product_name may have.
Unreadable == [readable |-> FALSE, content |-> <<>>]
DmiFiles ==
    { Unreadable,
      [readable |-> TRUE, content |->
        <<"N","i","t","r","o"," ","A","N","5","1","5","-","5","7"," ","R","e","v","2">>],
      [readable |-> TRUE, content |->
        <<"n","i","t","r","o"," ","a","n","5","1","5","-","5","7","\n">>],
      [readable |-> TRUE, content |->
        <<"G","e","n","e","r","i","c"," ","L","a","p","t","o","p">>],
      [readable |-> TRUE, content |->
        <<"N","i","t","r","o"," ","A","N","5","1","5","-","5","5","\n">>],
      [readable |-> TRUE, content |-> <<"\n">>] }

verify_hardware_always_ok(file) == "Ok"

\* fn verify_hardware() -> Result<()>
verify_hardware(file) ==
    IF ~file.readable
    THEN "Err"
    ELSE LET product_name == trim(file.content)
             is_supported ==
                 \E model \in SUPPORTED_MODELS : contains(product_name, model)
         IN  IF ~is_supported THEN "Err" ELSE "Ok"

\* ------------------------------------------------------------------------
\* boreas: registers, control values, fan profiles
\* ------------------------------------------------------------------------
REG_MANUAL_CONTROL == 3
REG_GPU_FAN_MODE == 33
REG_CPU_FAN_MODE == 34
REG_CPU_FAN_READ == 19
REG_GPU_FAN_READ == 21
REG_CPU_FAN_WRITE == 55
REG_GPU_FAN_WRITE == 58

VAL_MANUAL_CONTROL_ENABLE == 17
VAL_CPU_FAN_MANUAL == 12
VAL_GPU_FAN_MANUAL == 48
VAL_MANUAL_CONTROL_DISABLE == 0
VAL_CPU_FAN_AUTO == 4
VAL_GPU_FAN_AUTO == 16

\* The register addresses the daemon ever seeks to.
Registers ==
    { REG_MANUAL_CONTROL, REG_GPU_FAN_MODE, REG_CPU_FAN_MODE, REG_CPU_FAN_READ,
      REG_GPU_FAN_READ, REG_CPU_FAN_WRITE, REG_GPU_FAN_WRITE }

\* enum FanProfile
FanProfile ==
    { "FanProfile::Silent", "FanProfile::Balanced",
      "FanProfile::MaxPower", "FanProfile::Auto" }

cpu_speed(p) ==
    CASE p = "FanProfile::Silent" -> 25
      [] p = "FanProfile::Balanced" -> 50
      [] p = "FanProfile::MaxPower" -> 100
      [] p = "FanProfile::Auto" -> 50

gpu_speed(p) ==
    CASE p = "FanProfile::Silent" -> 25
      [] p = "FanProfile::Balanced" -> 50
      [] p = "FanProfile::MaxPower" -> 100
      [] p = "FanProfile::Auto" -> 50

\* format!("{:?}", profile) for the derived Debug of FanProfile
DebugFanProfile(p) ==
    CASE p = "FanProfile::Silent" -> "Silent"
      [] p = "FanProfile::Balanced" -> "Balanced"
      [] p = "FanProfile::MaxPower" -> "MaxPower"
      [] p = "FanProfile::Auto" -> "Auto"

\* The result of a name lookup that matches no arm.
NoProfile == "InvalidArgs"


fan_profile_from_name_default_arm(profile) ==
    LET name == to_lowercase(profile) IN
    CASE name = <<"s","i","l","e","n","t">> -> "FanProfile::Silent"
      [] name \in { <<"m","a","x","p","o","w","e","r">>,
                    <<"m","a","x","_","p","o","w","e","r">>,
                    <<"m","a","x">> } -> "FanProfile::MaxPower"
      [] name = <<"a","u","t","o">> -> "FanProfile::Auto"
      [] OTHER -> "FanProfile::Balanced"

\* The name lookup of set_fan_profile: match profile.to_lowercase().as_str()
fan_profile_from_name(profile) ==
    LET name == to_lowercase(profile) IN
    CASE name = <<"s","i","l","e","n","t">> -> "FanProfile::Silent"
      [] name = <<"b","a","l","a","n","c","e","d">> -> "FanProfile::Balanced"
      [] name \in { <<"m","a","x","p","o","w","e","r">>,
                    <<"m","a","x","_","p","o","w","e","r">>,
                    <<"m","a","x">> } -> "FanProfile::MaxPower"
      [] name = <<"a","u","t","o">> -> "FanProfile::Auto"
      [] OTHER -> NoProfile

\* Profile names callers send to the fan daemon, one call at a time.
FanNames ==
    { <<"s","i","l","e","n","t">>, <<"B","a","l","a","n","c","e","d">>,
      <<"M","a","x","P","o","w","e","r">>, <<"m","a","x","_","p","o","w","e","r">>,
      <<"M","A","X">>, <<"A","u","t","o">>,
      <<"t","u","r","b","o">>, <<"m","a","x"," ">> }

\* Profile names sent by concurrent callers.
FanNamesConcurrent ==
    { <<"s","i","l","e","n","t">>, <<"M","A","X">>, <<"a","u","t","o">>,
      <<"t","u","r","b","o">> }

\* Speeds (u8) passed to EcController::set_fan_speeds when it is driven
\* directly against a recording hardware surface.
SpeedInputs == {0, 25, 100, 101, 200, 255}

validate_fan_speed_off_by_one(speed) == IF speed > 101 THEN "Err" ELSE "Ok"

\* fn validate_fan_speed(speed: u8) -> Result<u8>; Ok carries speed unchanged
validate_fan_speed(speed) == IF speed > 100 THEN "Err" ELSE "Ok"

initialize_manual_control_modes_first ==
    << [reg |-> REG_CPU_FAN_MODE, value |-> VAL_CPU_FAN_MANUAL],
       [reg |-> REG_GPU_FAN_MODE, value |-> VAL_GPU_FAN_MANUAL],
       [reg |-> REG_MANUAL_CONTROL, value |-> VAL_MANUAL_CONTROL_ENABLE] >>

restore_auto_control_disable_first ==
    << [reg |-> REG_MANUAL_CONTROL, value |-> VAL_MANUAL_CONTROL_DISABLE],
       [reg |-> REG_CPU_FAN_MODE, value |-> VAL_CPU_FAN_AUTO],
       [reg |-> REG_GPU_FAN_MODE, value |-> VAL_GPU_FAN_AUTO] >>

\* The write_register calls of each EcController method, in program order;
\* every call is followed by `?`, so a failed one ends the method.
initialize_manual_control ==
    << [reg |-> REG_MANUAL_CONTROL, value |-> VAL_MANUAL_CONTROL_ENABLE],
       [reg |-> REG_CPU_FAN_MODE, value |-> VAL_CPU_FAN_MANUAL],
       [reg |-> REG_GPU_FAN_MODE, value |-> VAL_GPU_FAN_MANUAL] >>

restore_auto_control ==
    << [reg |-> REG_CPU_FAN_MODE, value |-> VAL_CPU_FAN_AUTO],
       [reg |-> REG_GPU_FAN_MODE, value |-> VAL_GPU_FAN_AUTO],
       [reg |-> REG_MANUAL_CONTROL, value |-> VAL_MANUAL_CONTROL_DISABLE] >>

\* The writes of set_fan_speeds after both validations passed.
set_fan_speeds_writes(cpu, gpu) ==
    << [reg |-> REG_CPU_FAN_WRITE, value |-> cpu],
       [reg |-> REG_GPU_FAN_WRITE, value |-> gpu] >>

\* The read_register calls of get_fan_speeds, in program order.
get_fan_speeds_reads == << REG_CPU_FAN_READ, REG_GPU_FAN_READ >>


\* ------------------------------------------------------------------------
\* State
\* ------------------------------------------------------------------------
VARIABLES
    daemon,         \* which binary this process runs: "boreas" | "prometheus"
    dispatch,       \* how clients call: "concurrent" | "serial" (one call at a time)
    dmi,            \* the identity file, as found by this run
    mainPc,         \* position of main()
    verified,       \* result of verify_hardware(): "pending" | "Ok" | "Err"
    gateRuns,       \* how many times verify_hardware() has run
    handleOpen,     \* the controller (EC file handle / CpuController) exists
    busRegistered,  \* the service object is registered on the bus
    fan_profile,    \* BoreasService.current_profile
    perf_profile,   \* PrometheusService.current_profile (Option)
    profLock,       \* holder of the current_profile mutex, 0 when free
    ec,             \* the EC register file: address -> byte
    filePos,        \* offset of the one open handle of the EC file
    ecLock,         \* holder of EcController.file's mutex, 0 when free
    govFiles,       \* contents of the matched scaling_governor files
    eppFiles,       \* contents of the matched energy_performance_preference files
    turboFile,      \* content of intel_pstate/no_turbo
    task,           \* per caller: the method call it is executing
    issued,         \* per caller: hardware operations begun by its current call
    landed,         \* per caller: transfers / file writes that took effect
    before,         \* per caller: current_profile when its current call arrived
    lastOk,         \* the most recent set-profile call that returned success
    calls           \* method calls accepted so far

vars == << daemon, dispatch, dmi, mainPc, verified, gateRuns, handleOpen, busRegistered,
           fan_profile, perf_profile, profLock, ec, filePos, ecLock,
           govFiles, eppFiles, turboFile, task, issued, landed, before, lastOk,
           calls >>

startupVars == << mainPc, verified, gateRuns, handleOpen, busRegistered >>
boreasHw == << ec, filePos, ecLock >>
prometheusHw == << govFiles, eppFiles, turboFile >>

\* Option<T>
None == <<>>
Some(x) == <<x>>

\* Offsets the file position can take: a register, or the byte after one.
Addresses == Registers \cup { r + 1 : r \in Registers }

IdleTask ==
    [ pc |-> "idle", op |-> "none", profile |-> <<>>, profile_enum |-> "none",
      fn |-> "none", k |-> 0, cpu |-> 0, gpu |-> 0, ret |-> "none", out |-> <<>> ]

\* A fresh call of method `op` by an idle task.
NewCall(op, profile) == [ IdleTask EXCEPT !.op = op, !.profile = profile ]

\* The call returns to the bus layer with `status` (and `value` on success).
Returned(t, status, value) ==
    [ t EXCEPT !.pc = "idle", !.fn = "none", !.k = 0,
               !.ret = status, !.out = value ]

\* How an I/O error surfaces: EcController/CpuController methods return Err,
\* the service methods map it to zbus::fdo::Error::Failed.
ErrorOf(t) == IF t.op = "set_fan_speeds" THEN "Err" ELSE "Failed"


\* ------------------------------------------------------------------------
\* prometheus: performance profiles
\* ------------------------------------------------------------------------
\* enum PerformanceProfile
PerformanceProfile ==
    { "PerformanceProfile::Silent", "PerformanceProfile::Balanced",
      "PerformanceProfile::WarSpeed" }

STR_powersave == <<"p","o","w","e","r","s","a","v","e">>
STR_performance == <<"p","e","r","f","o","r","m","a","n","c","e">>
STR_power == <<"p","o","w","e","r">>
STR_balance_performance ==
    <<"b","a","l","a","n","c","e","_","p","e","r","f","o","r","m","a","n","c","e">>

governor(p) ==
    CASE p = "PerformanceProfile::Silent" -> STR_powersave
      [] p = "PerformanceProfile::Balanced" -> STR_powersave
      [] p = "PerformanceProfile::WarSpeed" -> STR_performance

epp(p) ==
    CASE p = "PerformanceProfile::Silent" -> STR_power
      [] p = "PerformanceProfile::Balanced" -> STR_balance_performance
      [] p = "PerformanceProfile::WarSpeed" -> STR_performance

turbo_enabled(p) ==
    CASE p = "PerformanceProfile::Silent" -> FALSE
      [] p = "PerformanceProfile::Balanced" -> TRUE
      [] p = "PerformanceProfile::WarSpeed" -> TRUE

turbo_value_direct(enabled) == IF enabled THEN <<"1">> ELSE <<"0">>

\* The value set_turbo writes: 0 = turbo enabled, 1 = disabled
turbo_value(enabled) == IF enabled THEN <<"0">> ELSE <<"1">>

\* format!("{:?}", profile) for the derived Debug of PerformanceProfile
DebugPerformanceProfile(p) ==
    CASE p = "PerformanceProfile::Silent" -> "Silent"
      [] p = "PerformanceProfile::Balanced" -> "Balanced"
      [] p = "PerformanceProfile::WarSpeed" -> "WarSpeed"

\* The name lookup of set_performance_profile
performance_profile_from_name(profile) ==
    LET name == to_lowercase(profile) IN
    CASE name = <<"s","i","l","e","n","t">> -> "PerformanceProfile::Silent"
      [] name = <<"b","a","l","a","n","c","e","d">> -> "PerformanceProfile::Balanced"
      [] name \in { <<"w","a","r","s","p","e","e","d">>,
                    <<"w","a","r","_","s","p","e","e","d">> }
            -> "PerformanceProfile::WarSpeed"
      [] OTHER -> NoProfile

\* Profile names callers send to the power daemon, one call at a time.
PerfNames ==
    { <<"S","i","l","e","n","t">>, <<"b","a","l","a","n","c","e","d">>,
      <<"W","a","r","S","p","e","e","d">>, <<"w","a","r","_","s","p","e","e","d">>,
      <<"W","A","R","S","P","E","E","D">>, <<"m","a","x">>,
      <<"a","u","t","o">>, <<"w","a","r"," ","s","p","e","e","d">>, <<>> }

\* Profile names sent by concurrent callers.
PerfNamesConcurrent ==
    { <<"S","i","l","e","n","t">>, <<"W","a","r","S","p","e","e","d">>,
      <<"a","u","t","o">> }

\* ------------------------------------------------------------------------
\* Initial state: the process has just entered main()
\* ------------------------------------------------------------------------
\* The EC as the firmware leaves it: automatic fan control.
EcAtBoot ==
    [ a \in Addresses |->
        CASE a = REG_MANUAL_CONTROL -> VAL_MANUAL_CONTROL_DISABLE
          [] a = REG_CPU_FAN_MODE -> VAL_CPU_FAN_AUTO
          [] a = REG_GPU_FAN_MODE -> VAL_GPU_FAN_AUTO
          [] OTHER -> 0 ]

\* sysfs files as the kernel presents them at boot (reads end in a newline).
GovAtBoot == STR_powersave \o <<"\n">>
EppAtBoot == STR_balance_performance \o <<"\n">>
TurboAtBoot == <<"0", "\n">>

InitWith(clients) ==
    /\ daemon \in {"boreas", "prometheus"}
    /\ dispatch = clients
    /\ dmi \in DmiFiles
    /\ mainPc = "verify_hardware"
    /\ verified = "pending"
    /\ gateRuns = 0
    /\ handleOpen = FALSE
    /\ busRegistered = FALSE
    /\ fan_profile = "FanProfile::Auto"
    /\ perf_profile = None
    /\ profLock = 0
    /\ ec = EcAtBoot
    /\ filePos = 0
    /\ ecLock = 0
    /\ IF daemon = "prometheus"
       THEN \* one cpufreq directory per logical CPU; the EPP file is there
            \* for every CPU or (driver without EPP support) for none
            /\ \E n \in 0..MaxCpus :
                  /\ govFiles = [i \in 1..n |-> GovAtBoot]
                  /\ \E m \in {0, n} : eppFiles = [i \in 1..m |-> EppAtBoot]
            /\ turboFile \in {None, Some(TurboAtBoot)}
       ELSE /\ govFiles = <<>>
            /\ eppFiles = <<>>
            /\ turboFile = None
    /\ task = [c \in Callers |-> IdleTask]
    /\ issued = [c \in Callers |-> <<>>]
    /\ landed = [c \in Callers |-> <<>>]
    /\ before = [c \in Callers |->
                   IF daemon = "boreas" THEN "FanProfile::Auto" ELSE None]
    /\ lastOk = None
    /\ calls = 0

Init == InitWith("concurrent")
InitBoreas == InitWith("concurrent") /\ daemon = "boreas"
InitPrometheus == InitWith("concurrent") /\ daemon = "prometheus"
InitSeq == InitWith("serial")

\* ------------------------------------------------------------------------
\* main()
\* ------------------------------------------------------------------------
serviceVars == << fan_profile, perf_profile, profLock, ec, filePos, ecLock,
                  govFiles, eppFiles, turboFile, task, issued, landed, before,
                  lastOk >>

\* verify_hardware()?;
main_verify_hardware ==
    /\ mainPc = "verify_hardware"
    /\ verified' = verify_hardware(dmi)
    /\ gateRuns' = gateRuns + 1
    /\ mainPc' = IF verified' = "Ok" THEN "new_controller" ELSE "exited"
    /\ UNCHANGED << daemon, dispatch, dmi, handleOpen, busRegistered, serviceVars,
                    calls >>

\* let ec = Arc::new(EcController::new()?);  /  CpuController::new()?
main_new_controller ==
    /\ mainPc = "new_controller"
    /\ \/ /\ daemon = "boreas"
          /\ \/ handleOpen' = TRUE /\ mainPc' = "build_service"  \* open succeeded
             \/ handleOpen' = FALSE /\ mainPc' = "exited"        \* open failed
       \/ /\ daemon = "prometheus"
          /\ IF turboFile = None                     \* !Path::new(TURBO_PATH).exists()
             THEN handleOpen' = FALSE /\ mainPc' = "exited"
             ELSE handleOpen' = TRUE /\ mainPc' = "build_service"
    /\ UNCHANGED << daemon, dispatch, dmi, verified, gateRuns, busRegistered,
                    serviceVars, calls >>

\* let service = BoreasService { .. } / PrometheusService { .. };
main_build_service ==
    /\ mainPc = "build_service"
    /\ fan_profile' = "FanProfile::Auto"
    /\ perf_profile' = None
    /\ profLock' = 0
    /\ mainPc' = "connect"
    /\ UNCHANGED << daemon, dispatch, dmi, verified, gateRuns, handleOpen,
                    busRegistered, ec, filePos, ecLock, govFiles, eppFiles, turboFile, task,
                    issued, landed, before, lastOk, calls >>

\* ConnectionBuilder::system()?.name(..)?.serve_at(..)?.build().await?;
main_connect ==
    /\ mainPc = "connect"
    /\ \/ busRegistered' = TRUE /\ mainPc' = "serving"
       \/ busRegistered' = FALSE /\ mainPc' = "exited"
    /\ UNCHANGED << daemon, dispatch, dmi, verified, gateRuns, handleOpen,
                    serviceVars, calls >>

Main ==
    \/ main_verify_hardware
    \/ main_new_controller
    \/ main_build_service
    \/ main_connect

\* The bus layer delivers calls only while the daemon is serving.
Serving(d) == daemon = d /\ mainPc = "serving"


procVars == << daemon, dispatch, dmi, mainPc, verified, gateRuns, handleOpen,
              busRegistered >>

\* A call arrives: serial clients send the next call after the previous one
\* returned (caller 1); concurrent clients send MaxCalls calls in all, and an
\* arriving call is run by the first task that is free.
Arrive(c) ==
    IF dispatch = "serial"
    THEN c = 1 /\ UNCHANGED calls
    ELSE /\ calls < MaxCalls
         /\ \A d \in Callers : d < c => task[d].pc # "idle"
         /\ calls' = calls + 1

\* ------------------------------------------------------------------------
\* boreas: EcController and BoreasService
\* ------------------------------------------------------------------------
FileLockFree_unguarded(holder) == TRUE

\* self.file.lock().await completes only while no other guard is alive.
FileLockFree(holder) == holder = 0

\* self.current_profile.lock().await, likewise.
ProfileLockFree(holder) == holder = 0

\* The write_register calls of the EcController method the task is in.
Writes(t) ==
    CASE t.fn = "initialize_manual_control" -> initialize_manual_control
      [] t.fn = "restore_auto_control" -> restore_auto_control
      [] t.fn = "set_fan_speeds" -> set_fan_speeds_writes(t.cpu, t.gpu)

CurWrite(t) == Writes(t)[t.k]
CurRead(t) == get_fan_speeds_reads[t.k]

\* Enter the first write_register call of method fn.
BeginWrites(t, fn) == [ t EXCEPT !.pc = "wr_lock", !.fn = fn, !.k = 1 ]

\* The record of a register operation at the moment it is called.
IssueOf(t) ==
    CASE t.pc = "wr_lock" ->
            << [kind |-> "write", reg |-> CurWrite(t).reg, value |-> CurWrite(t).value] >>
      [] t.pc = "rd_lock" -> << [kind |-> "read", reg |-> CurRead(t), value |-> 0] >>
      [] OTHER -> <<>>

\* Where the task continues once write_register returned Ok(()).
AfterWrite(t) ==
    IF t.k < Len(Writes(t))
    THEN [ t EXCEPT !.pc = "wr_lock", !.k = t.k + 1 ]
    ELSE CASE t.fn = "initialize_manual_control" ->
                 \* back in set_fan_profile: self.ec.set_fan_speeds(cpu_speed(), gpu_speed())
                 [ t EXCEPT !.pc = "validate", !.fn = "set_fan_speeds", !.k = 0,
                            !.cpu = cpu_speed(t.profile_enum),
                            !.gpu = gpu_speed(t.profile_enum) ]
           [] t.op = "set_fan_speeds" -> Returned(t, "Ok", <<>>)
           [] OTHER ->
                 \* back in set_fan_profile: *self.current_profile.lock().await = ..
                 [ t EXCEPT !.pc = "prof_lock", !.fn = "none", !.k = 0 ]

\* The byte at an offset of the EC file (offsets outside the tracked ones read 0).
ByteAt(a) == IF a \in DOMAIN ec THEN ec[a] ELSE 0

set_fan_profile_speculative(c, profile) ==
    /\ Serving("boreas")
    /\ task[c].pc = "idle"
    /\ Arrive(c)
    /\ LET profile_enum == fan_profile_from_name(profile)
           t0 == [ NewCall("set_fan_profile", profile) EXCEPT !.profile_enum = profile_enum ]
           t1 == IF profile_enum = NoProfile
                 THEN Returned(t0, "InvalidArgs", <<>>)
                 ELSE IF profile_enum = "FanProfile::Auto"
                      THEN BeginWrites(t0, "restore_auto_control")
                      ELSE BeginWrites(t0, "initialize_manual_control")
       IN  /\ task' = [task EXCEPT ![c] = t1]
           /\ issued' = [issued EXCEPT ![c] = IssueOf(t1)]
           /\ fan_profile' = IF profile_enum = NoProfile THEN fan_profile ELSE profile_enum
    /\ landed' = [landed EXCEPT ![c] = <<>>]
    /\ before' = [before EXCEPT ![c] = fan_profile]
    /\ UNCHANGED << procVars, perf_profile, profLock, boreasHw, prometheusHw, lastOk >>

set_fan_profile_holds_profile_lock(c, profile) ==
    /\ Serving("boreas")
    /\ task[c].pc = "idle"
    /\ Arrive(c)
    /\ ProfileLockFree(profLock)
    /\ LET profile_enum == fan_profile_from_name(profile)
           t0 == [ NewCall("set_fan_profile", profile) EXCEPT !.profile_enum = profile_enum ]
           t1 == IF profile_enum = NoProfile
                 THEN Returned(t0, "InvalidArgs", <<>>)
                 ELSE IF profile_enum = "FanProfile::Auto"
                      THEN BeginWrites(t0, "restore_auto_control")
                      ELSE BeginWrites(t0, "initialize_manual_control")
       IN  /\ task' = [task EXCEPT ![c] = t1]
           /\ issued' = [issued EXCEPT ![c] = IssueOf(t1)]
           /\ profLock' = IF profile_enum = NoProfile THEN profLock ELSE c
    /\ landed' = [landed EXCEPT ![c] = <<>>]
    /\ before' = [before EXCEPT ![c] = fan_profile]
    /\ UNCHANGED << procVars, fan_profile, perf_profile, boreasHw, prometheusHw, lastOk >>

\* BoreasService::set_fan_profile, up to its first await
set_fan_profile(c, profile) ==
    /\ Serving("boreas")
    /\ task[c].pc = "idle"
    /\ Arrive(c)
    /\ LET profile_enum == fan_profile_from_name(profile)
           t0 == [ NewCall("set_fan_profile", profile) EXCEPT !.profile_enum = profile_enum ]
           t1 == IF profile_enum = NoProfile
                 THEN Returned(t0, "InvalidArgs", <<>>)
                 ELSE IF profile_enum = "FanProfile::Auto"
                      THEN BeginWrites(t0, "restore_auto_control")
                      ELSE BeginWrites(t0, "initialize_manual_control")
       IN  /\ task' = [task EXCEPT ![c] = t1]
           /\ issued' = [issued EXCEPT ![c] = IssueOf(t1)]
    /\ landed' = [landed EXCEPT ![c] = <<>>]
    /\ before' = [before EXCEPT ![c] = fan_profile]
    /\ UNCHANGED << procVars, fan_profile, perf_profile, profLock, boreasHw,
                    prometheusHw, lastOk >>

\* EcController::set_fan_speeds called directly (as a test harness does)
ec_set_fan_speeds(c, cpu_speed_arg, gpu_speed_arg) ==
    /\ Serving("boreas")
    /\ task[c].pc = "idle"
    /\ Arrive(c)
    /\ task' = [task EXCEPT ![c] =
                  [ NewCall("set_fan_speeds", <<>>) EXCEPT
                        !.pc = "validate", !.fn = "set_fan_speeds",
                        !.cpu = cpu_speed_arg, !.gpu = gpu_speed_arg ]]
    /\ issued' = [issued EXCEPT ![c] = <<>>]
    /\ landed' = [landed EXCEPT ![c] = <<>>]
    /\ before' = [before EXCEPT ![c] = fan_profile]
    /\ UNCHANGED << procVars, fan_profile, perf_profile, profLock, boreasHw,
                    prometheusHw, lastOk >>

\* EcController::set_fan_speeds: the two validate_fan_speed(..)? lines
set_fan_speeds_validate(c) ==
    /\ task[c].pc = "validate"
    /\ LET t == task[c]
           t1 == IF validate_fan_speed(t.cpu) = "Err" THEN Returned(t, ErrorOf(t), <<>>)
                 ELSE IF validate_fan_speed(t.gpu) = "Err" THEN Returned(t, ErrorOf(t), <<>>)
                 ELSE BeginWrites(t, "set_fan_speeds")
       IN  /\ task' = [task EXCEPT ![c] = t1]
           /\ issued' = [issued EXCEPT ![c] = @ \o IssueOf(t1)]
    /\ UNCHANGED << procVars, calls, before, fan_profile, perf_profile, profLock, boreasHw,
                    prometheusHw, landed, lastOk >>

\* write_register: let mut file = self.file.lock().await;
write_register_lock(c) ==
    /\ task[c].pc = "wr_lock"
    /\ FileLockFree(ecLock)
    /\ ecLock' = c
    /\ task' = [task EXCEPT ![c].pc = "wr_seek"]
    /\ UNCHANGED << procVars, calls, before, fan_profile, perf_profile, profLock, ec, filePos,
                    prometheusHw, issued, landed, lastOk >>

write_register_seek_leaks_guard(c) ==
    /\ task[c].pc = "wr_seek"
    /\ \/ /\ filePos' = CurWrite(task[c]).reg
          /\ task' = [task EXCEPT ![c].pc = "wr_write"]
       \/ /\ task' = [task EXCEPT ![c] = Returned(@, ErrorOf(@), <<>>)]
          /\ UNCHANGED filePos
    /\ UNCHANGED << procVars, calls, before, fan_profile, perf_profile, profLock, ec, ecLock,
                    prometheusHw, issued, landed, lastOk >>

\* write_register: file.seek(SeekFrom::Start(register))?;
write_register_seek(c) ==
    /\ task[c].pc = "wr_seek"
    /\ \/ /\ filePos' = CurWrite(task[c]).reg
          /\ task' = [task EXCEPT ![c].pc = "wr_write"]
          /\ UNCHANGED ecLock
       \/ /\ task' = [task EXCEPT ![c] = Returned(@, ErrorOf(@), <<>>)]
          /\ ecLock' = 0
          /\ UNCHANGED filePos
    /\ UNCHANGED << procVars, calls, before, fan_profile, perf_profile, profLock, ec,
                    prometheusHw, issued, landed, lastOk >>

write_register_write_all_unchecked(c) ==
    /\ task[c].pc = "wr_write"
    /\ \/ /\ ec' = IF filePos \in DOMAIN ec
                   THEN [ec EXCEPT ![filePos] = CurWrite(task[c]).value]
                   ELSE ec
          /\ filePos' = filePos + 1
          /\ landed' = [landed EXCEPT ![c] =
                          Append(@, [at |-> filePos, value |-> CurWrite(task[c]).value])]
       \/ UNCHANGED << ec, filePos, landed >>
    /\ task' = [task EXCEPT ![c].pc = "wr_flush"]
    /\ UNCHANGED << procVars, calls, before, fan_profile, perf_profile, profLock,
                    ecLock, prometheusHw, issued, lastOk >>

\* write_register: file.write_all(&[value])?;
write_register_write_all(c) ==
    /\ task[c].pc = "wr_write"
    /\ \/ /\ ec' = IF filePos \in DOMAIN ec
                   THEN [ec EXCEPT ![filePos] = CurWrite(task[c]).value]
                   ELSE ec
          /\ filePos' = filePos + 1
          /\ landed' = [landed EXCEPT ![c] =
                          Append(@, [at |-> filePos, value |-> CurWrite(task[c]).value])]
          /\ task' = [task EXCEPT ![c].pc = "wr_flush"]
          /\ UNCHANGED ecLock
       \/ /\ task' = [task EXCEPT ![c] = Returned(@, ErrorOf(@), <<>>)]
          /\ ecLock' = 0
          /\ UNCHANGED << ec, filePos, landed >>
    /\ UNCHANGED << procVars, calls, before, fan_profile, perf_profile, profLock,
                    prometheusHw, issued, lastOk >>

\* write_register: file.flush()?; Ok(())   (the guard drops on either return)
write_register_flush(c) ==
    /\ task[c].pc = "wr_flush"
    /\ \/ LET t1 == AfterWrite(task[c])
          IN  /\ task' = [task EXCEPT ![c] = t1]
              /\ issued' = [issued EXCEPT ![c] = @ \o IssueOf(t1)]
       \/ /\ task' = [task EXCEPT ![c] = Returned(@, ErrorOf(@), <<>>)]
          /\ UNCHANGED issued
    /\ ecLock' = 0
    /\ UNCHANGED << procVars, calls, before, fan_profile, perf_profile, profLock, ec, filePos,
                    prometheusHw, landed, lastOk >>

\* BoreasService::get_fan_speeds -> EcController::get_fan_speeds, up to its first await
get_fan_speeds(c) ==
    /\ Serving("boreas")
    /\ task[c].pc = "idle"
    /\ Arrive(c)
    /\ LET t1 == [ NewCall("get_fan_speeds", <<>>) EXCEPT
                       !.pc = "rd_lock", !.fn = "get_fan_speeds", !.k = 1 ]
       IN  /\ task' = [task EXCEPT ![c] = t1]
           /\ issued' = [issued EXCEPT ![c] = IssueOf(t1)]
    /\ landed' = [landed EXCEPT ![c] = <<>>]
    /\ before' = [before EXCEPT ![c] = fan_profile]
    /\ UNCHANGED << procVars, fan_profile, perf_profile, profLock, boreasHw,
                    prometheusHw, lastOk >>

\* read_register: let mut file = self.file.lock().await;
read_register_lock(c) ==
    /\ task[c].pc = "rd_lock"
    /\ FileLockFree(ecLock)
    /\ ecLock' = c
    /\ task' = [task EXCEPT ![c].pc = "rd_seek"]
    /\ UNCHANGED << procVars, calls, before, fan_profile, perf_profile, profLock, ec, filePos,
                    prometheusHw, issued, landed, lastOk >>

\* read_register: file.seek(SeekFrom::Start(register))?;
read_register_seek(c) ==
    /\ task[c].pc = "rd_seek"
    /\ \/ /\ filePos' = CurRead(task[c])
          /\ task' = [task EXCEPT ![c].pc = "rd_read"]
          /\ UNCHANGED ecLock
       \/ /\ task' = [task EXCEPT ![c] = Returned(@, "Failed", <<>>)]
          /\ ecLock' = 0
          /\ UNCHANGED filePos
    /\ UNCHANGED << procVars, calls, before, fan_profile, perf_profile, profLock, ec,
                    prometheusHw, issued, landed, lastOk >>

\* read_register: file.read_exact(&mut buf)?; Ok(buf[0])   (the guard drops)
\* and, in get_fan_speeds, the binding of cpu / gpu and the final Ok((cpu, gpu))
read_register_read_exact(c) ==
    /\ task[c].pc = "rd_read"
    /\ \/ LET t == task[c]
              byte == ByteAt(filePos)
              t1 == IF t.k = 1
                    THEN [ t EXCEPT !.cpu = byte, !.k = 2, !.pc = "rd_lock" ]
                    ELSE Returned(t, "Ok", << t.cpu, byte >>)
          IN  /\ task' = [task EXCEPT ![c] = t1]
              /\ issued' = [issued EXCEPT ![c] = @ \o IssueOf(t1)]
              /\ landed' = [landed EXCEPT ![c] =
                              Append(@, [at |-> filePos, value |-> byte])]
              /\ filePos' = filePos + 1
       \/ /\ task' = [task EXCEPT ![c] = Returned(@, "Failed", <<>>)]
          /\ UNCHANGED << issued, landed, filePos >>
    /\ ecLock' = 0
    /\ UNCHANGED << procVars, calls, before, fan_profile, perf_profile, profLock, ec,
                    prometheusHw, lastOk >>

\* BoreasService::get_current_profile, up to its await
boreas_get_current_profile(c) ==
    /\ Serving("boreas")
    /\ task[c].pc = "idle"
    /\ Arrive(c)
    /\ task' = [task EXCEPT ![c] =
                  [ NewCall("get_current_profile", <<>>) EXCEPT !.pc = "prof_lock" ]]
    /\ issued' = [issued EXCEPT ![c] = <<>>]
    /\ landed' = [landed EXCEPT ![c] = <<>>]
    /\ before' = [before EXCEPT ![c] = fan_profile]
    /\ UNCHANGED << procVars, fan_profile, perf_profile, profLock, boreasHw,
                    prometheusHw, lastOk >>

\* self.current_profile.lock().await   (both services, setter and getter)
current_profile_lock(c) ==
    /\ task[c].pc = "prof_lock"
    /\ ProfileLockFree(profLock)
    /\ profLock' = c
    /\ task' = [task EXCEPT ![c].pc =
                  IF task[c].op = "get_current_profile" THEN "prof_load" ELSE "prof_store"]
    /\ UNCHANGED << procVars, calls, before, fan_profile, perf_profile, boreasHw, prometheusHw,
                    issued, landed, lastOk >>

\* set_fan_profile: *guard = profile_enum; Ok(format!("Fan profile set to: {}", profile))
set_fan_profile_store(c) ==
    /\ daemon = "boreas"
    /\ task[c].pc = "prof_store"
    /\ fan_profile' = task[c].profile_enum
    /\ profLock' = 0
    /\ task' = [task EXCEPT ![c] = Returned(@, "Ok", <<>>)]
    /\ lastOk' = Some(task[c].profile_enum)
    /\ UNCHANGED << procVars, calls, before, perf_profile, boreasHw, prometheusHw, issued, landed >>

\* get_current_profile: let profile = *guard; format!("{:?}", profile)
boreas_get_current_profile_load(c) ==
    /\ daemon = "boreas"
    /\ task[c].pc = "prof_load"
    /\ profLock' = 0
    /\ task' = [task EXCEPT ![c] = Returned(@, "Ok", << DebugFanProfile(fan_profile) >>)]
    /\ UNCHANGED << procVars, calls, before, fan_profile, perf_profile, boreasHw, prometheusHw,
                    issued, landed, lastOk >>


\* ------------------------------------------------------------------------
\* prometheus: CpuController and PrometheusService
\* ------------------------------------------------------------------------
\* glob(pattern).filter_map(Result::ok).collect(): the matched paths, in order
glob(files) == [i \in 1..Len(files) |-> i]

\* The record of a file write at the moment fs::write is called.
FileWrite(kind, path, value) == [kind |-> kind, path |-> path, value |-> value]

apply_profile_epp_first == << "set_epp", "set_governor", "set_turbo" >>

\* CpuController::apply_profile: the calls it makes, in program order, each
\* followed by `?`
apply_profile == << "set_governor", "set_epp", "set_turbo" >>

\* Enter the i-th call of apply_profile, or return Ok(()) from it after the last.
EnterCall(t, i) ==
    IF i > Len(apply_profile)
    THEN \* back in set_performance_profile: *self.current_profile.lock().await = ..
         [ t EXCEPT !.pc = "prof_lock", !.fn = "none", !.k = 0 ]
    ELSE [ t EXCEPT !.fn = apply_profile[i], !.k = 0,
                    !.pc = CASE apply_profile[i] = "set_governor" -> "gov_glob"
                             [] apply_profile[i] = "set_epp" -> "epp_glob"
                             [] apply_profile[i] = "set_turbo" -> "turbo_write" ]

\* The call the task is in returned Ok(()): go on with the one after it.
AfterCall(t) ==
    EnterCall(t, 1 + CHOOSE i \in 1..Len(apply_profile) : apply_profile[i] = t.fn)

\* PrometheusService::set_performance_profile, up to the call of apply_profile
set_performance_profile(c, profile) ==
    /\ Serving("prometheus")
    /\ task[c].pc = "idle"
    /\ Arrive(c)
    /\ LET profile_enum == performance_profile_from_name(profile)
           t0 == [ NewCall("set_performance_profile", profile) EXCEPT
                       !.profile_enum = profile_enum ]
       IN  task' = [task EXCEPT ![c] =
                      IF profile_enum = NoProfile
                      THEN Returned(t0, "InvalidArgs", <<>>)
                      ELSE EnterCall(t0, 1)]
    /\ issued' = [issued EXCEPT ![c] = <<>>]
    /\ landed' = [landed EXCEPT ![c] = <<>>]
    /\ before' = [before EXCEPT ![c] = perf_profile]
    /\ UNCHANGED << procVars, fan_profile, perf_profile, profLock, boreasHw,
                    prometheusHw, lastOk >>

\* set_governor: glob the governor paths; bail when there is none
set_governor_glob(c) ==
    /\ task[c].pc = "gov_glob"
    /\ LET paths == glob(govFiles)
       IN  task' = [task EXCEPT ![c] =
                      IF paths = <<>>
                      THEN Returned(@, "Failed", <<>>)
                      ELSE [ @ EXCEPT !.pc = "gov_write", !.k = 1 ]]
    /\ UNCHANGED << procVars, calls, before, fan_profile, perf_profile, profLock, boreasHw,
                    prometheusHw, issued, landed, lastOk >>

set_governor_write_best_effort(c) ==
    /\ task[c].pc = "gov_write"
    /\ LET t == task[c]
           w == FileWrite("governor", glob(govFiles)[t.k], governor(t.profile_enum))
       IN  /\ issued' = [issued EXCEPT ![c] = Append(@, w)]
           /\ \/ /\ govFiles' = [govFiles EXCEPT ![w.path] = w.value]
                 /\ landed' = [landed EXCEPT ![c] = Append(@, w)]
              \/ UNCHANGED << govFiles, landed >>
           /\ task' = [task EXCEPT ![c] =
                         IF t.k < Len(glob(govFiles))
                         THEN [ t EXCEPT !.k = t.k + 1 ]
                         ELSE AfterCall(t)]
    /\ UNCHANGED << procVars, calls, before, fan_profile, perf_profile, profLock, boreasHw,
                    eppFiles, turboFile, lastOk >>

\* set_governor: fs::write(&path, governor).with_context(..)?  for the next path
set_governor_write(c) ==
    /\ task[c].pc = "gov_write"
    /\ LET t == task[c]
           w == FileWrite("governor", glob(govFiles)[t.k], governor(t.profile_enum))
       IN  /\ issued' = [issued EXCEPT ![c] = Append(@, w)]
           /\ \/ /\ govFiles' = [govFiles EXCEPT ![w.path] = w.value]
                 /\ landed' = [landed EXCEPT ![c] = Append(@, w)]
                 /\ task' = [task EXCEPT ![c] =
                               IF t.k < Len(glob(govFiles))
                               THEN [ t EXCEPT !.k = t.k + 1 ]
                               ELSE AfterCall(t)]
              \/ /\ task' = [task EXCEPT ![c] = Returned(t, "Failed", <<>>)]
                 /\ UNCHANGED << govFiles, landed >>
    /\ UNCHANGED << procVars, calls, before, fan_profile, perf_profile, profLock, boreasHw,
                    eppFiles, turboFile, lastOk >>

set_epp_glob_bail(c) ==
    /\ task[c].pc = "epp_glob"
    /\ LET paths == glob(eppFiles)
       IN  task' = [task EXCEPT ![c] =
                      IF paths = <<>>
                      THEN Returned(@, "Failed", <<>>)
                      ELSE [ @ EXCEPT !.pc = "epp_write", !.k = 1 ]]
    /\ UNCHANGED << procVars, calls, before, fan_profile, perf_profile, profLock,
                    boreasHw, prometheusHw, issued, landed, lastOk >>

\* set_epp: glob the EPP paths; warn and return Ok(()) when there is none
set_epp_glob(c) ==
    /\ task[c].pc = "epp_glob"
    /\ LET paths == glob(eppFiles)
       IN  task' = [task EXCEPT ![c] =
                      IF paths = <<>>
                      THEN AfterCall(@)
                      ELSE [ @ EXCEPT !.pc = "epp_write", !.k = 1 ]]
    /\ UNCHANGED << procVars, calls, before, fan_profile, perf_profile, profLock, boreasHw,
                    prometheusHw, issued, landed, lastOk >>

set_epp_write_propagates(c) ==
    /\ task[c].pc = "epp_write"
    /\ LET t == task[c]
           w == FileWrite("epp", glob(eppFiles)[t.k], epp(t.profile_enum))
       IN  /\ issued' = [issued EXCEPT ![c] = Append(@, w)]
           /\ \/ /\ eppFiles' = [eppFiles EXCEPT ![w.path] = w.value]
                 /\ landed' = [landed EXCEPT ![c] = Append(@, w)]
                 /\ task' = [task EXCEPT ![c] =
                               IF t.k < Len(glob(eppFiles))
                               THEN [ t EXCEPT !.k = t.k + 1 ]
                               ELSE AfterCall(t)]
              \/ /\ task' = [task EXCEPT ![c] = Returned(t, "Failed", <<>>)]
                 /\ UNCHANGED << eppFiles, landed >>
    /\ UNCHANGED << procVars, calls, before, fan_profile, perf_profile, profLock, boreasHw,
                    govFiles, turboFile, lastOk >>

\* set_epp: if let Err(e) = fs::write(&path, epp) { warn!(..) }  for the next path
set_epp_write(c) ==
    /\ task[c].pc = "epp_write"
    /\ LET t == task[c]
           w == FileWrite("epp", glob(eppFiles)[t.k], epp(t.profile_enum))
       IN  /\ issued' = [issued EXCEPT ![c] = Append(@, w)]
           /\ \/ /\ eppFiles' = [eppFiles EXCEPT ![w.path] = w.value]
                 /\ landed' = [landed EXCEPT ![c] = Append(@, w)]
              \/ UNCHANGED << eppFiles, landed >>
           /\ task' = [task EXCEPT ![c] =
                         IF t.k < Len(glob(eppFiles))
                         THEN [ t EXCEPT !.k = t.k + 1 ]
                         ELSE AfterCall(t)]
    /\ UNCHANGED << procVars, calls, before, fan_profile, perf_profile, profLock, boreasHw,
                    govFiles, turboFile, lastOk >>

\* set_turbo: fs::write(TURBO_PATH, value).context(..)?; then apply_profile returns
set_turbo_write(c) ==
    /\ task[c].pc = "turbo_write"
    /\ LET t == task[c]
           w == FileWrite("turbo", 0, turbo_value(turbo_enabled(t.profile_enum)))
       IN  /\ issued' = [issued EXCEPT ![c] = Append(@, w)]
           /\ \/ /\ turboFile' = Some(w.value)
                 /\ landed' = [landed EXCEPT ![c] = Append(@, w)]
                 /\ task' = [task EXCEPT ![c] = AfterCall(t)]
              \/ /\ task' = [task EXCEPT ![c] = Returned(t, "Failed", <<>>)]
                 /\ UNCHANGED << turboFile, landed >>
    /\ UNCHANGED << procVars, calls, before, fan_profile, perf_profile, profLock, boreasHw,
                    govFiles, eppFiles, lastOk >>

\* set_performance_profile: *guard = Some(profile_enum); Ok(format!(..))
set_performance_profile_store(c) ==
    /\ daemon = "prometheus"
    /\ task[c].pc = "prof_store"
    /\ perf_profile' = Some(task[c].profile_enum)
    /\ profLock' = 0
    /\ task' = [task EXCEPT ![c] = Returned(@, "Ok", <<>>)]
    /\ lastOk' = Some(task[c].profile_enum)
    /\ UNCHANGED << procVars, calls, before, fan_profile, boreasHw, prometheusHw, issued, landed >>

\* PrometheusService::get_current_profile, up to its await
prometheus_get_current_profile(c) ==
    /\ Serving("prometheus")
    /\ task[c].pc = "idle"
    /\ Arrive(c)
    /\ task' = [task EXCEPT ![c] =
                  [ NewCall("get_current_profile", <<>>) EXCEPT !.pc = "prof_lock" ]]
    /\ issued' = [issued EXCEPT ![c] = <<>>]
    /\ landed' = [landed EXCEPT ![c] = <<>>]
    /\ before' = [before EXCEPT ![c] = perf_profile]
    /\ UNCHANGED << procVars, fan_profile, perf_profile, profLock, boreasHw,
                    prometheusHw, lastOk >>

\* get_current_profile: if let Some(profile) = *guard { format!("{:?}") } else { "Unknown" }
prometheus_get_current_profile_load(c) ==
    /\ daemon = "prometheus"
    /\ task[c].pc = "prof_load"
    /\ profLock' = 0
    /\ task' = [task EXCEPT ![c] =
                  Returned(@, "Ok",
                           IF perf_profile # None
                           THEN << DebugPerformanceProfile(perf_profile[1]) >>
                           ELSE << "Unknown" >>)]
    /\ UNCHANGED << procVars, calls, before, fan_profile, perf_profile, boreasHw, prometheusHw,
                    issued, landed, lastOk >>

\* The result of reading one sysfs file.
IoOk(value) == [ok |-> TRUE, value |-> value]
IoErr == [ok |-> FALSE, value |-> <<>>]

\* PrometheusService::get_cpu_status, up to the first file access
get_cpu_status(c) ==
    /\ Serving("prometheus")
    /\ task[c].pc = "idle"
    /\ Arrive(c)
    /\ task' = [task EXCEPT ![c] =
                  [ NewCall("get_cpu_status", <<>>) EXCEPT
                        !.pc = "status_governor", !.fn = "get_current_governor" ]]
    /\ issued' = [issued EXCEPT ![c] = <<>>]
    /\ landed' = [landed EXCEPT ![c] = <<>>]
    /\ before' = [before EXCEPT ![c] = perf_profile]
    /\ UNCHANGED << procVars, fan_profile, perf_profile, profLock, boreasHw,
                    prometheusHw, lastOk >>

get_current_governor_from_profile(c) ==
    /\ task[c].pc = "status_governor"
    /\ LET r == IF perf_profile = None THEN IoErr
                ELSE IoOk(governor(perf_profile[1]))
       IN  task' = [task EXCEPT ![c] =
                      [ @ EXCEPT !.pc = "status_epp", !.fn = "get_current_epp",
                                 !.out = << r >> ]]
    /\ UNCHANGED << procVars, calls, before, fan_profile, perf_profile, profLock,
                    boreasHw, prometheusHw, issued, landed, lastOk >>

\* get_current_governor: read and trim the first matched path, or bail
get_current_governor(c) ==
    /\ task[c].pc = "status_governor"
    /\ LET paths == glob(govFiles)
       IN  \E r \in (IF paths = <<>> THEN {IoErr}
                     ELSE {IoOk(trim(govFiles[paths[1]])), IoErr}) :
              task' = [task EXCEPT ![c] =
                         [ @ EXCEPT !.pc = "status_epp", !.fn = "get_current_epp",
                                    !.out = << r >> ]]
    /\ UNCHANGED << procVars, calls, before, fan_profile, perf_profile, profLock, boreasHw,
                    prometheusHw, issued, landed, lastOk >>

STR_not_supported == <<"n","o","t","_","s","u","p","p","o","r","t","e","d">>

\* get_current_epp: read and trim the first matched path, or "not_supported";
\* then get_cpu_status matches on the pair of results
get_current_epp(c) ==
    /\ task[c].pc = "status_epp"
    /\ LET paths == glob(eppFiles)
           gov == task[c].out[1]
       IN  \E r \in (IF paths = <<>> THEN {IoOk(STR_not_supported)}
                     ELSE {IoOk(trim(eppFiles[paths[1]])), IoErr}) :
              task' = [task EXCEPT ![c] =
                         IF gov.ok /\ r.ok
                         THEN Returned(@, "Ok", << gov.value, r.value >>)
                         ELSE Returned(@, "Failed", <<>>)]
    /\ UNCHANGED << procVars, calls, before, fan_profile, perf_profile, profLock, boreasHw,
                    prometheusHw, issued, landed, lastOk >>

\* ------------------------------------------------------------------------
\* Specifications
\* ------------------------------------------------------------------------
\* The profile names clients send.
FanNamesSent == IF dispatch = "serial" THEN FanNames ELSE FanNamesConcurrent
PerfNamesSent == IF dispatch = "serial" THEN PerfNames ELSE PerfNamesConcurrent

\* A method call arrives and runs to its first await point.
BoreasAccept(c) ==
    \/ \E profile \in FanNamesSent : set_fan_profile(c, profile)
    \/ get_fan_speeds(c)
    \/ boreas_get_current_profile(c)

PrometheusAccept(c) ==
    \/ \E profile \in PerfNamesSent : set_performance_profile(c, profile)
    \/ get_cpu_status(c)
    \/ prometheus_get_current_profile(c)

\* A call in progress takes its next step.
BoreasStep(c) ==
    \/ set_fan_speeds_validate(c)
    \/ write_register_lock(c)
    \/ write_register_seek(c)
    \/ write_register_write_all(c)
    \/ write_register_flush(c)
    \/ read_register_lock(c)
    \/ read_register_seek(c)
    \/ read_register_read_exact(c)
    \/ current_profile_lock(c)
    \/ set_fan_profile_store(c)
    \/ boreas_get_current_profile_load(c)

PrometheusStep(c) ==
    \/ set_governor_glob(c)
    \/ set_governor_write(c)
    \/ set_epp_glob(c)
    \/ set_epp_write(c)
    \/ set_turbo_write(c)
    \/ current_profile_lock(c)
    \/ set_performance_profile_store(c)
    \/ prometheus_get_current_profile_load(c)
    \/ get_current_governor(c)
    \/ get_current_epp(c)

NextBoreas ==
    \/ Main
    \/ \E c \in Callers : BoreasAccept(c)
    \/ \E c \in Callers : BoreasStep(c)

NextPrometheus ==
    \/ Main
    \/ \E c \in Callers : PrometheusAccept(c)
    \/ \E c \in Callers : PrometheusStep(c)

\* Either daemon, whichever this process is.
Next == NextBoreas \/ NextPrometheus

\* Concurrent callers: the dispatcher runs every inbound call as its own task.
Spec == Init /\ [][Next]_vars

\* The fan daemon with concurrent callers.
SpecBoreas == InitBoreas /\ [][NextBoreas]_vars

\* The power daemon with concurrent callers.
SpecPrometheus == InitPrometheus /\ [][NextPrometheus]_vars

\* Non-overlapping calls: each call returns before the next one arrives.
SpecSeq == InitSeq /\ [][Next]_vars

\* EcController::set_fan_speeds driven directly with arbitrary u8 speeds.
NextFanSpeeds ==
    \/ Main
    \/ \E cpu \in SpeedInputs, gpu \in SpeedInputs : ec_set_fan_speeds(1, cpu, gpu)
    \/ set_fan_speeds_validate(1)
    \/ write_register_lock(1)
    \/ write_register_seek(1)
    \/ write_register_write_all(1)
    \/ write_register_flush(1)

SpecFanSpeeds == InitSeq /\ [][NextFanSpeeds]_vars

\* A step of the call of c that needs no lock: every I/O step completes, with
\* success or with an error.
BoreasRun(c) ==
    \/ set_fan_speeds_validate(c)
    \/ write_register_seek(c)
    \/ write_register_write_all(c)
    \/ write_register_flush(c)
    \/ read_register_seek(c)
    \/ read_register_read_exact(c)
    \/ set_fan_profile_store(c)
    \/ boreas_get_current_profile_load(c)

\* The call of c acquires a lock it waits for (tokio's Mutex hands the lock
\* to its waiters in FIFO order).
BoreasAcquire(c) ==
    \/ write_register_lock(c)
    \/ read_register_lock(c)
    \/ current_profile_lock(c)

\* The fan daemon with concurrent callers, every task being scheduled.
SpecBoreasFair ==
    /\ InitBoreas
    /\ [][NextBoreas]_vars
    /\ \A c \in Callers : WF_vars(BoreasRun(c)) /\ SF_vars(BoreasAcquire(c))

\* Both daemons with concurrent callers that send valid profile names only.
NextValidNames ==
    \/ Main
    \/ \E c \in Callers :
          \E profile \in { <<"s","i","l","e","n","t">>, <<"A","u","t","o">> } :
              set_fan_profile(c, profile)
    \/ \E c \in Callers : get_fan_speeds(c)
    \/ \E c \in Callers : boreas_get_current_profile(c)
    \/ \E c \in Callers : BoreasStep(c)
    \/ \E c \in Callers :
          \E profile \in { <<"W","a","r","S","p","e","e","d">> } :
              set_performance_profile(c, profile)
    \/ \E c \in Callers : get_cpu_status(c)
    \/ \E c \in Callers : prometheus_get_current_profile(c)
    \/ \E c \in Callers : PrometheusStep(c)

SpecValidNames == Init /\ [][NextValidNames]_vars

\* Speeds the EC reports in its read-back registers.
FanReadbackValues == {0, 37}

\* The EC firmware refreshes a fan read-back register (REG_CPU_FAN_READ,
\* REG_GPU_FAN_READ): the daemon only ever reads these.
ec_fan_readback(reg, value) ==
    /\ Serving("boreas")
    /\ ec[reg] # value
    /\ ec' = [ec EXCEPT ![reg] = value]
    /\ UNCHANGED << procVars, calls, before, fan_profile, perf_profile, profLock,
                    filePos, ecLock, prometheusHw, task, issued, landed, lastOk >>

\* Non-overlapping calls against hardware whose read-back registers change.
NextStatus ==
    \/ Main
    \/ \E profile \in FanNamesConcurrent : set_fan_profile(1, profile)
    \/ get_fan_speeds(1)
    \/ boreas_get_current_profile(1)
    \/ BoreasStep(1)
    \/ PrometheusAccept(1)
    \/ PrometheusStep(1)
    \/ \E reg \in {REG_CPU_FAN_READ, REG_GPU_FAN_READ}, value \in FanReadbackValues :
          ec_fan_readback(reg, value)

SpecStatus == InitSeq /\ [][NextStatus]_vars

\* ------------------------------------------------------------------------
\* Properties
\* ------------------------------------------------------------------------
\* pattern occurs in s as a contiguous run of characters
IsSubstring(pattern, s) ==
    \E i \in 0..Len(s) : \E j \in i..Len(s) : SubSeq(s, i + 1, j) = pattern

\* a and b are equal up to the case of their letters
EqualsIgnoreCase(a, b) ==
    Len(a) = Len(b) /\ \A i \in 1..Len(a) : LowerChar(a[i]) = LowerChar(b[i])

DMI_Rev2 ==
    <<"N","i","t","r","o"," ","A","N","5","1","5","-","5","7"," ","R","e","v","2">>
DMI_Generic == <<"G","e","n","e","r","i","c"," ","L","a","p","t","o","p">>

\* The identity file is readable and its trimmed content has an allow-list entry.
GatePasses ==
    dmi.readable /\ \E entry \in SUPPORTED_MODELS : IsSubstring(entry, trim(dmi.content))

\* C1: startup gets past the identity gate only if the identity file is
\* readable and its trimmed content contains an allow-list entry
\* ("Nitro AN515-57 Rev2" passes, "Generic Laptop" does not); when the gate
\* fails the process is terminated with the hardware handle never opened and
\* the bus object never registered; the gate runs exactly once, before any
\* other component exists.
C1_IdentityGate ==
    /\ gateRuns \in {0, 1}
    /\ (gateRuns = 0) <=> (mainPc = "verify_hardware")
    /\ gateRuns = 0 => ~handleOpen /\ ~busRegistered
    /\ gateRuns = 1 => (verified = "Ok" <=> GatePasses)
    /\ (handleOpen \/ busRegistered
          \/ mainPc \in {"new_controller", "build_service", "connect", "serving"})
         => GatePasses
    /\ ~GatePasses =>
          /\ mainPc \in {"verify_hardware", "exited"}
          /\ ~handleOpen /\ ~busRegistered
          /\ ec = EcAtBoot
          /\ \A c \in Callers : task[c] = IdleTask
    /\ (gateRuns = 1 /\ dmi.readable /\ dmi.content = DMI_Rev2) => verified = "Ok"
    /\ (gateRuns = 1 /\ dmi.readable /\ dmi.content = DMI_Generic)
         => verified = "Err" /\ mainPc = "exited"

\* The gate has refused "Generic Laptop" and the process has terminated.
C1_Witness ==
    dmi.readable /\ dmi.content = DMI_Generic /\ verified = "Err" /\ mainPc = "exited"

\* A write_register call as recorded in `issued`.
W(reg, value) == [kind |-> "write", reg |-> reg, value |-> value]

ManualEntry == << W(3, 17), W(34, 12), W(33, 48) >>
AutoEntry == << W(34, 4), W(33, 16), W(3, 0) >>
NonAutoProfiles == {"FanProfile::Silent", "FanProfile::Balanced", "FanProfile::MaxPower"}

\* The i-th operation the call of c issued has taken effect where it aimed.
Applied(c, i) ==
    /\ i <= Len(landed[c])
    /\ landed[c][i] = [at |-> issued[c][i].reg, value |-> issued[c][i].value]

\* C2: a set_fan_profile call for Silent, Balanced or MaxPower whose writes
\* all succeed issues exactly five register writes, in the order 3 := 17,
\* 34 := 12, 33 := 48, then register 55, then register 58; and no call issues
\* a write of 55 or 58 before its own first three writes have completed.
C2_NonAutoWriteOrder ==
    \A c \in Callers :
        LET t == task[c] IN
        (t.op = "set_fan_profile" /\ t.profile_enum \in NonAutoProfiles) =>
            /\ (t.pc = "idle" /\ t.ret = "Ok") =>
                  /\ Len(issued[c]) = 5
                  /\ SubSeq(issued[c], 1, 3) = ManualEntry
                  /\ issued[c][4].kind = "write" /\ issued[c][4].reg = 55
                  /\ issued[c][5].kind = "write" /\ issued[c][5].reg = 58
                  /\ \A i \in 1..5 : Applied(c, i)
            /\ \A i \in 1..Len(issued[c]) :
                  issued[c][i].reg \in {55, 58} =>
                      /\ i > 3
                      /\ SubSeq(issued[c], 1, 3) = ManualEntry
                      /\ \A j \in 1..3 : Applied(c, j)

\* A MaxPower call has returned success.
C2_Witness ==
    \E c \in Callers :
        /\ task[c].op = "set_fan_profile" /\ task[c].profile_enum = "FanProfile::MaxPower"
        /\ task[c].pc = "idle" /\ task[c].ret = "Ok"

\* C3: a set_fan_profile call for Auto whose writes all succeed issues exactly
\* three register writes, in the order 34 := 4, 33 := 16, 3 := 0; an Auto call
\* never writes register 55 or 58.
C3_AutoWriteOrder ==
    \A c \in Callers :
        LET t == task[c] IN
        (t.op = "set_fan_profile" /\ t.profile_enum = "FanProfile::Auto") =>
            /\ (t.pc = "idle" /\ t.ret = "Ok") =>
                  /\ issued[c] = AutoEntry
                  /\ \A i \in 1..3 : Applied(c, i)
            /\ \A i \in 1..Len(issued[c]) : issued[c][i].reg \notin {55, 58}
            /\ \A i \in 1..Len(landed[c]) : landed[c][i].at \notin {55, 58}

\* An Auto call has returned success after the fans had been in manual mode.
C3_Witness ==
    \E c \in Callers :
        /\ task[c].op = "set_fan_profile" /\ task[c].profile_enum = "FanProfile::Auto"
        /\ task[c].pc = "idle" /\ task[c].ret = "Ok"
        /\ before[c] # "FanProfile::Auto"

\* The registers a profile's sequence writes, in order.
PlanRegs(p) == IF p = "FanProfile::Auto" THEN << 34, 33, 3 >> ELSE << 3, 34, 33, 55, 58 >>

\* C4: in the fan daemon (calls not overlapping), when the k-th write of a
\* set_fan_profile sequence fails the call returns Failed, the writes 1..k-1
\* are still in the registers, the k-th write is the last one issued (none
\* after it, no second attempt), and current_profile has the value it had
\* when the call arrived.
C4_PartialFailure ==
    \A c \in Callers :
        LET t == task[c]
            k == Len(issued[c])
        IN  (t.op = "set_fan_profile" /\ t.pc = "idle" /\ t.profile_enum \in FanProfile) =>
               /\ (Len(landed[c]) < k) => t.ret = "Failed"
               /\ t.ret = "Failed" =>
                     /\ k \in 1..Len(PlanRegs(t.profile_enum))
                     /\ \A i \in 1..k :
                           /\ issued[c][i].kind = "write"
                           /\ issued[c][i].reg = PlanRegs(t.profile_enum)[i]
                     /\ \A i \in 1..(k - 1) :
                           /\ Applied(c, i)
                           /\ ec[issued[c][i].reg] = issued[c][i].value
                     /\ Len(landed[c]) \in {k - 1, k}
                     /\ fan_profile = before[c]

\* MaxPower failed on its 4th write (CPU speed) after Silent had been applied:
\* manual-enable and both mode writes are in place, the state is not MaxPower.
C4_Witness ==
    \E c \in Callers :
        /\ task[c].op = "set_fan_profile" /\ task[c].profile_enum = "FanProfile::MaxPower"
        /\ task[c].pc = "idle" /\ task[c].ret = "Failed"
        /\ Len(issued[c]) = 4 /\ Len(landed[c]) = 3
        /\ ec[3] = 17 /\ ec[34] = 12 /\ ec[33] = 48 /\ ec[55] = 25
        /\ fan_profile = "FanProfile::Silent"

RecognizedFanNames ==
    { <<"s","i","l","e","n","t">>, <<"b","a","l","a","n","c","e","d">>,
      <<"m","a","x","p","o","w","e","r">>, <<"m","a","x","_","p","o","w","e","r">>,
      <<"m","a","x">>, <<"a","u","t","o">> }
RecognizedPerfNames ==
    { <<"s","i","l","e","n","t">>, <<"b","a","l","a","n","c","e","d">>,
      <<"w","a","r","s","p","e","e","d">>, <<"w","a","r","_","s","p","e","e","d">> }

\* The call of c was sent a profile name that is none of `names` in any letter case.
UnknownName(c, names) == \A r \in names : ~EqualsIgnoreCase(task[c].profile, r)

\* C5: in both daemons (calls not overlapping) a set-profile call whose name
\* is not, in any letter case, a recognized name or alias returns InvalidArgs
\* without issuing any hardware write and leaves current_profile as it was.
C5_UnknownNameRejected ==
    \A c \in Callers :
        LET t == task[c] IN
        /\ (t.op = "set_fan_profile" /\ UnknownName(c, RecognizedFanNames)) =>
              /\ t.pc = "idle" /\ t.ret = "InvalidArgs"
              /\ issued[c] = <<>> /\ landed[c] = <<>>
              /\ fan_profile = before[c]
        /\ (t.op = "set_performance_profile" /\ UnknownName(c, RecognizedPerfNames)) =>
              /\ t.pc = "idle" /\ t.ret = "InvalidArgs"
              /\ issued[c] = <<>> /\ landed[c] = <<>>
              /\ perf_profile = before[c]

\* An unknown name was rejected after some profile had been applied.
C5_Witness ==
    \E c \in Callers :
        /\ task[c].op \in {"set_fan_profile", "set_performance_profile"}
        /\ task[c].ret = "InvalidArgs"
        /\ lastOk # None


\* The name get_current_profile is to report for the cell's content.
CanonicalName(p) ==
    CASE p \in {"FanProfile::Silent", "PerformanceProfile::Silent"} -> "Silent"
      [] p \in {"FanProfile::Balanced", "PerformanceProfile::Balanced"} -> "Balanced"
      [] p = "FanProfile::MaxPower" -> "MaxPower"
      [] p = "FanProfile::Auto" -> "Auto"
      [] p = "PerformanceProfile::WarSpeed" -> "WarSpeed"

\* What get_current_profile is to return after the calls so far.
ExpectedCurrentProfile ==
    IF lastOk # None THEN CanonicalName(lastOk[1])
    ELSE IF daemon = "boreas" THEN "Auto" ELSE "Unknown"

\* get_current_profile answers with the most recent successful profile (or the
\* sentinel), and the cell never holds anything else, also in mid-call.
CurrentProfileTracksSuccess ==
    /\ \A c \in Callers :
          (task[c].op = "get_current_profile" /\ task[c].pc = "idle") =>
              /\ task[c].ret = "Ok"
              /\ task[c].out = << ExpectedCurrentProfile >>
    /\ daemon = "boreas" =>
          fan_profile = (IF lastOk = None THEN "FanProfile::Auto" ELSE lastOk[1])
    /\ daemon = "prometheus" => perf_profile = lastOk
    /\ \A c \in Callers :
          (task[c].op \in {"set_fan_profile", "set_performance_profile"}
             /\ task[c].pc = "idle" /\ task[c].ret = "Ok") =>
              lastOk = Some(task[c].profile_enum)

\* Every write the call of c issued took effect.
EveryWriteSucceeded(c) == Len(landed[c]) = Len(issued[c])

\* Every write the call of c issued took effect, failed energy-preference
\* writes aside.
EveryRequiredWriteSucceeded(c) ==
    \A i \in 1..Len(issued[c]) :
        issued[c][i].kind # "epp" =>
            IF issued[c][i].kind = "write"
            THEN Applied(c, i)
            ELSE \E j \in 1..Len(landed[c]) : landed[c][j] = issued[c][i]

SetProfileReturnedOk(c) ==
    /\ task[c].op \in {"set_fan_profile", "set_performance_profile"}
    /\ task[c].pc = "idle" /\ task[c].ret = "Ok"

\* C6 as stated: with non-overlapping calls get_current_profile returns the
\* canonical name of the most recent successful set-profile call, or the
\* sentinel ("Auto" / "Unknown") when none succeeded; current_profile is
\* written only as the last step of a call ALL of whose hardware writes
\* succeeded.
C6_Original ==
    /\ CurrentProfileTracksSuccess
    /\ \A c \in Callers : SetProfileReturnedOk(c) => EveryWriteSucceeded(c)

\* C6 (amended): as stated, except that in the power daemon the call that
\* writes current_profile may have had energy-preference writes fail: what
\* succeeded is every register write (fan daemon), every governor write and
\* the turbo write (power daemon).
C6_CurrentProfile ==
    /\ CurrentProfileTracksSuccess
    /\ \A c \in Callers :
          SetProfileReturnedOk(c) =>
              /\ EveryRequiredWriteSucceeded(c)
              /\ daemon = "boreas" => EveryWriteSucceeded(c)

\* get_current_profile of the power daemon has answered "WarSpeed" after a
\* call that returned success although an energy-preference write had failed.
C6_Witness ==
    \E c \in Callers :
        /\ daemon = "prometheus"
        /\ task[c].op = "get_current_profile" /\ task[c].pc = "idle"
        /\ lastOk = Some("PerformanceProfile::WarSpeed")
        /\ task[c].out = << "WarSpeed" >>
        /\ Len(eppFiles) >= 1
        /\ \A p \in 1..Len(govFiles) : govFiles[p] = STR_performance
        /\ eppFiles[1] # epp("PerformanceProfile::WarSpeed")
        /\ turboFile = Some(turbo_value(TRUE))

\* C7: in the power daemon an energy-preference write is issued only after the
\* governor value has been written to every one of the N >= 1 governor paths,
\* and the turbo write is issued last, after the energy-preference writes to
\* all matched paths.
C7_GovernorBeforeEppBeforeTurbo ==
    \A c \in Callers :
        LET t == task[c]
            is == issued[c]
            n == Len(govFiles)
            m == Len(eppFiles)
            GovernorsDone ==
                /\ n >= 1
                /\ \A p \in 1..n :
                      /\ is[p] = FileWrite("governor", p, governor(t.profile_enum))
                      /\ \E i \in 1..Len(landed[c]) : landed[c][i] = is[p]
                      /\ govFiles[p] = governor(t.profile_enum)
        IN  t.op = "set_performance_profile" =>
              /\ \A j \in 1..Len(is) :
                    /\ is[j].kind = "governor" => j <= n /\ is[j].path = j
                    /\ is[j].kind = "epp" =>
                          /\ GovernorsDone
                          /\ j \in (n + 1)..(n + m) /\ is[j].path = j - n
                    /\ is[j].kind = "turbo" =>
                          /\ GovernorsDone
                          /\ j = n + m + 1 /\ j = Len(is)
                          /\ \A q \in 1..m : is[n + q].kind = "epp"
              /\ (t.pc = "idle" /\ t.ret = "Ok") => Len(is) = n + m + 1

\* A profile has been applied on two CPUs with energy-preference files.
C7_Witness ==
    \E c \in Callers :
        /\ task[c].op = "set_performance_profile"
        /\ task[c].pc = "idle" /\ task[c].ret = "Ok"
        /\ Len(govFiles) = 2 /\ Len(eppFiles) = 2 /\ Len(issued[c]) = 5

\* C8: in the power daemon (calls not overlapping), with no governor path the
\* call fails without any write and current_profile stays; with governor
\* paths but no energy-preference path the missing files fail nothing: the
\* call fails only on a failed governor or turbo write, and otherwise issues
\* the turbo write, returns success and updates current_profile.
C8_GlobZeroMatches ==
    \A c \in Callers :
        LET t == task[c]
            n == Len(govFiles)
        IN  (t.op = "set_performance_profile" /\ t.profile_enum \in PerformanceProfile) =>
              /\ n = 0 =>
                    /\ issued[c] = <<>> /\ landed[c] = <<>>
                    /\ t.pc \in {"gov_glob", "idle"}
                    /\ t.pc = "idle" => t.ret = "Failed"
                    /\ perf_profile = before[c]
                    /\ turboFile = Some(TurboAtBoot)
              /\ (n >= 1 /\ Len(eppFiles) = 0 /\ t.pc = "idle") =>
                    /\ \A i \in 1..Len(issued[c]) : issued[c][i].kind # "epp"
                    /\ t.ret \in {"Ok", "Failed"}
                    /\ t.ret = "Failed" => ~EveryWriteSucceeded(c)
                    /\ t.ret = "Ok" =>
                          /\ Len(issued[c]) = n + 1
                          /\ issued[c][n + 1].kind = "turbo"
                          /\ EveryWriteSucceeded(c)
                          /\ perf_profile = Some(t.profile_enum)

\* A profile was applied on a machine with governor files and no EPP file.
C8_Witness ==
    \E c \in Callers :
        /\ task[c].op = "set_performance_profile"
        /\ task[c].pc = "idle" /\ task[c].ret = "Ok"
        /\ Len(govFiles) >= 1 /\ Len(eppFiles) = 0
        /\ perf_profile = Some(task[c].profile_enum)
        /\ before[c] # perf_profile

\* C9: set_fan_speeds with a CPU or GPU speed above 100 returns a validation
\* error without any register operation (neither 55 nor 58 is written, also
\* when only the GPU speed is out of range); with both speeds in 0..100 a call
\* that succeeds has written exactly the given values to 55 and 58.
C9_FanSpeedValidation ==
    /\ ec[55] <= 100 /\ ec[58] <= 100
    /\ \A c \in Callers :
          LET t == task[c] IN
          t.op = "set_fan_speeds" =>
            /\ (t.cpu > 100 \/ t.gpu > 100) =>
                  /\ issued[c] = <<>> /\ landed[c] = <<>>
                  /\ t.pc \in {"validate", "idle"}
                  /\ t.pc = "idle" => t.ret = "Err"
            /\ (t.cpu <= 100 /\ t.gpu <= 100 /\ t.pc # "validate") =>
                  /\ issued[c] # <<>> /\ issued[c][1] = W(55, t.cpu)
                  /\ Len(issued[c]) >= 2 => issued[c][2] = W(58, t.gpu)
                  /\ Len(issued[c]) <= 2
                  /\ t.ret = "Ok" =>
                        /\ issued[c] = << W(55, t.cpu), W(58, t.gpu) >>
                        /\ Applied(c, 1) /\ Applied(c, 2)
                        /\ ec[55] = t.cpu /\ ec[58] = t.gpu

\* A call with a valid CPU speed and an invalid GPU speed was rejected; the
\* registers still hold what an earlier call wrote.
C9_Witness ==
    \E c \in Callers :
        /\ task[c].op = "set_fan_speeds" /\ task[c].pc = "idle"
        /\ task[c].cpu = 100 /\ task[c].gpu = 101 /\ task[c].ret = "Err"
        /\ ec[55] = 25 /\ ec[58] = 25

\* The task is inside a register operation: between acquiring the handle's
\* lock and the return of read_register / write_register.
InFlight(c) == task[c].pc \in {"wr_seek", "wr_write", "wr_flush", "rd_seek", "rd_read"}

\* C10: in the fan daemon with concurrent callers at most one register
\* operation is in flight on the EC handle; its seek, transfer and flush are
\* not interleaved with another operation's, so every byte is transferred at
\* the register address its own call named.
C10_OneRegisterOperationInFlight ==
    /\ Cardinality({ c \in Callers : InFlight(c) }) <= 1
    /\ \A c \in Callers :
          /\ InFlight(c) => ecLock = c
          /\ task[c].pc \in {"wr_write", "wr_flush"} =>
                issued[c][Len(issued[c])].reg = CurWrite(task[c]).reg
          /\ task[c].pc = "wr_write" => filePos = CurWrite(task[c]).reg
          /\ task[c].pc = "rd_read" => filePos = CurRead(task[c])
          /\ task[c].op \in {"set_fan_profile", "get_fan_speeds"} =>
                \A i \in 1..Len(landed[c]) : landed[c][i].at = issued[c][i].reg

\* One caller is about to transfer its byte while the other waits for the
\* handle with a write to another register.
C10_Witness ==
    /\ task[1].pc = "wr_write" /\ task[2].pc = "wr_lock"
    /\ CurWrite(task[1]).reg # CurWrite(task[2]).reg
    /\ Len(landed[1]) >= 1


\* The number of register writes of the sequence set_fan_profile runs for p.
SequenceLength(p) ==
    IF p = "FanProfile::Auto" THEN Len(restore_auto_control)
    ELSE Len(initialize_manual_control) + Len(set_fan_speeds_writes(0, 0))

\* The set_fan_profile call of c is between the first and the last write of
\* its sequence.
MidSequence(c) ==
    /\ task[c].op = "set_fan_profile" /\ task[c].pc # "idle"
    /\ Len(landed[c]) >= 1
    /\ Len(landed[c]) < SequenceLength(task[c].profile_enum)

\* A register write of d reaches the hardware in this step.
WriteLands(d) ==
    /\ task[d].pc = "wr_write"
    /\ Len(landed'[d]) > Len(landed[d])

\* C11: in the fan daemon no two logical operations interleave their hardware
\* writes: while a set_fan_profile call is between the first and the last
\* write of its sequence, no register write of another caller reaches the
\* hardware.
C11_NoInterleavedSequences ==
    [][ \A c, d \in Callers : (c # d /\ MidSequence(c)) => ~WriteLands(d) ]_vars


\* The call of c is at a hardware step: waiting for or holding the EC handle,
\* or at a sysfs glob, read or write.
AtHardware(c) ==
    task[c].pc \in { "validate", "wr_lock", "wr_seek", "wr_write", "wr_flush",
                     "rd_lock", "rd_seek", "rd_read",
                     "gov_glob", "gov_write", "epp_glob", "epp_write", "turbo_write",
                     "status_governor", "status_epp" }

\* The call of c holds the current_profile guard.
HoldsProfileLock(c) == profLock = c

\* C12: in both daemons the current_profile lock is held only for the single
\* read or update of the cell: no call holds it while it holds or waits for
\* the hardware lock or performs a hardware read or write, the holder's next
\* step releases it, and so get_current_profile never waits behind a hardware
\* write sequence in flight.
C12_ProfileLockNotHeldDuringIO ==
    /\ [](\A c \in Callers :
            /\ HoldsProfileLock(c) =>
                  /\ task[c].pc \in {"prof_store", "prof_load"}
                  /\ ecLock # c
                  /\ ~AtHardware(c)
            /\ (task[c].op = "get_current_profile" /\ task[c].pc = "prof_lock"
                  /\ profLock # 0) =>
                  task[profLock].pc \in {"prof_store", "prof_load"})
    /\ [][ \A c \in Callers :
              (HoldsProfileLock(c) /\ task'[c] # task[c]) =>
                  /\ profLock' = 0
                  /\ task'[c].pc = "idle" /\ task'[c].ret = "Ok"
                  /\ boreasHw' = boreasHw /\ prometheusHw' = prometheusHw ]_vars

\* get_current_profile holds the current_profile lock and is about to answer
\* while another call is in the middle of its hardware writes.
C12_Witness ==
    \E c, d \in Callers :
        /\ task[c].op = "get_current_profile" /\ task[c].pc = "prof_load"
        /\ HoldsProfileLock(c)
        /\ task[d].op \in {"set_fan_profile", "set_performance_profile"}
        /\ AtHardware(d) /\ Len(landed[d]) >= 1


\* The upper-case form of a character.
UpperChar(ch) ==
    IF \E i \in 1..26 : Lower[i] = ch
    THEN Upper[CHOOSE i \in 1..26 : Lower[i] = ch]
    ELSE ch

\* Every spelling of s in upper and lower case letters.
RECURSIVE CaseVariants(_)
CaseVariants(s) ==
    IF s = <<>> THEN { <<>> }
    ELSE { <<h>> \o t : h \in {Head(s), UpperChar(Head(s))},
                        t \in CaseVariants(Tail(s)) }

MaxPowerAliases ==
    { <<"m","a","x">>, <<"m","a","x","p","o","w","e","r">>,
      <<"m","a","x","_","p","o","w","e","r">> }
WarSpeedAliases ==
    { <<"w","a","r","s","p","e","e","d">>, <<"w","a","r","_","s","p","e","e","d">> }

\* The name lookups map every spelling of every alias to the one profile.
AliasClosed ==
    /\ \A a \in MaxPowerAliases : \A v \in CaseVariants(a) :
          fan_profile_from_name(v) = "FanProfile::MaxPower"
    /\ \A a \in WarSpeedAliases : \A v \in CaseVariants(a) :
          performance_profile_from_name(v) = "PerformanceProfile::WarSpeed"
    /\ cpu_speed("FanProfile::MaxPower") = 100
    /\ gpu_speed("FanProfile::MaxPower") = 100

\* The one write sequence of the MaxPower fan profile.
MaxPowerSequence ==
    << W(3, 17), W(34, 12), W(33, 48), W(55, 100), W(58, 100) >>

\* The one write sequence of the WarSpeed power profile on this machine.
WarSpeedSequence ==
    [p \in 1..Len(govFiles) |-> FileWrite("governor", p, STR_performance)]
    \o [p \in 1..Len(eppFiles) |-> FileWrite("epp", p, STR_performance)]
    \o << FileWrite("turbo", 0, <<"0">>) >>

IsPrefix(s, t) == Len(s) <= Len(t) /\ s = SubSeq(t, 1, Len(s))

\* C13: the name lookup is case-insensitive and alias-closed: "max",
\* "maxpower", "max_power" in any letter case are MaxPower (CPU 100, GPU 100)
\* in the fan daemon, "warspeed", "war_speed" in any letter case are WarSpeed
\* in the power daemon; whichever alias and case a call used, it issues the
\* one write sequence of that profile and, on success, leaves that profile in
\* current_profile.
C13_AliasClosedLookup ==
    /\ AliasClosed
    /\ \A c \in Callers :
          LET t == task[c] IN
          /\ (t.op = "set_fan_profile"
                /\ \E a \in MaxPowerAliases : EqualsIgnoreCase(t.profile, a)) =>
                /\ t.profile_enum = "FanProfile::MaxPower"
                /\ IsPrefix(issued[c], MaxPowerSequence)
                /\ (t.pc = "idle" /\ t.ret = "Ok") =>
                      /\ issued[c] = MaxPowerSequence
                      /\ fan_profile = "FanProfile::MaxPower"
                      /\ ec[55] = 100 /\ ec[58] = 100
          /\ (t.op = "set_performance_profile"
                /\ \E a \in WarSpeedAliases : EqualsIgnoreCase(t.profile, a)) =>
                /\ t.profile_enum = "PerformanceProfile::WarSpeed"
                /\ IsPrefix(issued[c], WarSpeedSequence)
                /\ (t.pc = "idle" /\ t.ret = "Ok") =>
                      /\ issued[c] = WarSpeedSequence
                      /\ perf_profile = Some("PerformanceProfile::WarSpeed")

\* A call that spelled the profile "MAX" has succeeded.
C13_Witness ==
    \E c \in Callers :
        /\ task[c].op = "set_fan_profile" /\ task[c].profile = <<"M","A","X">>
        /\ task[c].pc = "idle" /\ task[c].ret = "Ok"
        /\ issued[c] = MaxPowerSequence
        /\ fan_profile = "FanProfile::MaxPower"


\* The read-only methods of the two services.
ReadMethods == { "get_fan_speeds", "get_cpu_status", "get_current_profile" }

\* What get_cpu_status is to return, by the files' present contents.
CpuStatusOfHardware ==
    << trim(govFiles[1]),
       IF eppFiles = <<>> THEN STR_not_supported ELSE trim(eppFiles[1]) >>

\* C14: get_status (get_fan_speeds / get_cpu_status) and get_current_profile
\* are pure reads: they issue no hardware write and never change
\* current_profile; what get_status returns are the hardware contents at the
\* time of the read, whatever current_profile says (after a failed, partly
\* applied set_profile the status shows the partly applied hardware while
\* current_profile still names the profile before).
C14_PureReads ==
    /\ [](\A c \in Callers :
            LET t == task[c] IN
            /\ t.op \in ReadMethods =>
                  /\ \A i \in 1..Len(issued[c]) : issued[c][i].kind = "read"
                  /\ daemon = "prometheus" => issued[c] = <<>> /\ landed[c] = <<>>
                  /\ before[c] = IF daemon = "boreas" THEN fan_profile ELSE perf_profile
            /\ (t.op = "get_fan_speeds" /\ t.pc = "idle" /\ t.ret = "Ok") =>
                  /\ Len(landed[c]) = 2
                  /\ t.out = << landed[c][1].value, landed[c][2].value >>
            /\ (t.op = "get_cpu_status" /\ t.pc = "idle" /\ t.ret = "Ok") =>
                  /\ govFiles # <<>>
                  /\ t.out = CpuStatusOfHardware)
    /\ [][ \A c \in Callers :
              /\ (task'[c] # task[c] /\ task'[c].op \in ReadMethods) =>
                    /\ ec' = ec
                    /\ prometheusHw' = prometheusHw
                    /\ fan_profile' = fan_profile /\ perf_profile' = perf_profile
              /\ (task[c].pc = "rd_read" /\ Len(landed'[c]) > Len(landed[c])) =>
                    landed'[c] = Append(landed[c],
                                        [at |-> CurRead(task[c]),
                                         value |-> ec[CurRead(task[c])]]) ]_vars

\* get_cpu_status answered with the governor a failed WarSpeed call left in
\* the first CPU's file, while current_profile still names Silent.
C14_Witness ==
    \E c \in Callers :
        /\ task[c].op = "get_cpu_status" /\ task[c].pc = "idle" /\ task[c].ret = "Ok"
        /\ task[c].out[1] = STR_performance
        /\ perf_profile = Some("PerformanceProfile::Silent")
        /\ turboFile = Some(turbo_value(FALSE))


\* The last write of profile p's sequence is what the hardware holds at its
\* target: no sequence that completed later has overwritten it.
FinalWriteInPlace(p) ==
    IF daemon = "boreas"
    THEN IF p = "FanProfile::Auto"
         THEN ec[REG_MANUAL_CONTROL] = VAL_MANUAL_CONTROL_DISABLE
         ELSE ec[REG_GPU_FAN_WRITE] = gpu_speed(p)
    ELSE turboFile = Some(turbo_value(turbo_enabled(p)))

\* The profile current_profile names.
NamedProfile == IF daemon = "boreas" THEN fan_profile ELSE perf_profile[1]

\* C15: under concurrent callers, once all set_profile calls in flight have
\* returned, current_profile holds the profile of the successful call whose
\* write sequence completed last: it does not name a profile whose writes
\* another successful call has overwritten afterwards.
C15_LastAppliedProfile ==
    (\A c \in Callers : SetProfileReturnedOk(c)) => FinalWriteInPlace(NamedProfile)


\* The write w of the call of c took effect.
Landed(c, w) == \E j \in 1..Len(landed[c]) : landed[c][j] = w

\* C16: the power daemon's apply sequence is not transactional. When the
\* governor write to the i-th of N paths fails the call returns Failed, the
\* governor writes to the paths before i stay applied, no write to a later
\* governor path and no energy-preference or turbo write is issued, and
\* current_profile is unchanged; when the turbo write fails the call returns
\* Failed with all governor writes and the energy-preference writes left in
\* place and current_profile unchanged.
C16_PowerNotTransactional ==
    \A c \in Callers :
        LET t == task[c]
            is == issued[c]
            n == Len(govFiles)
        IN  (t.op = "set_performance_profile" /\ t.pc = "idle" /\ t.ret = "Failed"
               /\ n >= 1) =>
              /\ is # <<>>
              /\ perf_profile = before[c]
              /\ LET last == is[Len(is)] IN
                 /\ ~Landed(c, last)
                 /\ last.kind \in {"governor", "turbo"}
                 /\ last.kind = "governor" =>
                       /\ Len(is) = last.path
                       /\ \A p \in 1..Len(is) : is[p].kind = "governor" /\ is[p].path = p
                       /\ \A p \in 1..(Len(is) - 1) :
                             Landed(c, is[p]) /\ govFiles[p] = governor(t.profile_enum)
                 /\ last.kind = "turbo" =>
                       /\ Len(is) = n + Len(eppFiles) + 1
                       /\ \A p \in 1..n :
                             Landed(c, is[p]) /\ govFiles[p] = governor(t.profile_enum)
                       /\ \A j \in 1..Len(is) :
                             (is[j].kind = "epp" /\ Landed(c, is[j])) =>
                                 eppFiles[is[j].path] = epp(t.profile_enum)

\* WarSpeed failed at the governor file of the second CPU: the first CPU runs
\* the performance governor, the second does not.
C16_Witness ==
    \E c \in Callers :
        /\ task[c].op = "set_performance_profile"
        /\ task[c].profile_enum = "PerformanceProfile::WarSpeed"
        /\ task[c].pc = "idle" /\ task[c].ret = "Failed"
        /\ Len(govFiles) >= 2 /\ Len(issued[c]) = 2
        /\ govFiles[1] = STR_performance /\ govFiles[2] # STR_performance


\* An energy-preference write of the call of c has failed.
EppWriteFailed(c) ==
    \E j \in 1..Len(issued[c]) : issued[c][j].kind = "epp" /\ ~Landed(c, issued[c][j])

\* C17: the energy-preference step of the power daemon is best-effort. After
\* a failed write to any of the matched energy-preference paths the remaining
\* paths are still written and the turbo write is still issued; the failed
\* writes never fail the call, which returns success and updates
\* current_profile to the requested profile (only a failed turbo write makes
\* it fail).
C17_EppBestEffort ==
    \A c \in Callers :
        LET t == task[c]
            is == issued[c]
            n == Len(govFiles)
            m == Len(eppFiles)
        IN  (t.op = "set_performance_profile" /\ EppWriteFailed(c)) =>
              /\ t.pc \in {"epp_write", "turbo_write", "prof_lock", "prof_store", "idle"}
              /\ t.pc # "epp_write" =>
                    /\ Len(is) >= n + m
                    /\ \A q \in 1..m :
                          /\ is[n + q] = FileWrite("epp", q, epp(t.profile_enum))
                          /\ Landed(c, is[n + q]) => eppFiles[q] = epp(t.profile_enum)
              /\ t.pc \in {"prof_lock", "prof_store", "idle"} =>
                    /\ Len(is) = n + m + 1
                    /\ is[n + m + 1] =
                          FileWrite("turbo", 0, turbo_value(turbo_enabled(t.profile_enum)))
              /\ t.pc \in {"prof_lock", "prof_store"} => Landed(c, is[n + m + 1])
              /\ t.pc = "idle" =>
                    IF Landed(c, is[n + m + 1])
                    THEN /\ t.ret = "Ok"
                         /\ perf_profile = Some(t.profile_enum)
                         /\ turboFile = Some(is[n + m + 1].value)
                    ELSE t.ret = "Failed" /\ perf_profile = before[c]

\* The write to the first CPU's energy-preference file failed, the second
\* CPU's was still written, and the call succeeded with a new profile.
C17_Witness ==
    \E c \in Callers :
        /\ task[c].op = "set_performance_profile"
        /\ task[c].pc = "idle" /\ task[c].ret = "Ok"
        /\ Len(eppFiles) = 2
        /\ ~Landed(c, FileWrite("epp", 1, epp(task[c].profile_enum)))
        /\ Landed(c, FileWrite("epp", 2, epp(task[c].profile_enum)))
        /\ eppFiles[1] # eppFiles[2]
        /\ perf_profile = Some(task[c].profile_enum) /\ before[c] # perf_profile


\* The governor, energy-preference and turbo files all hold profile p's values.
HardwareHolds(p) ==
    /\ \A i \in 1..Len(govFiles) : govFiles[i] = governor(p)
    /\ \A i \in 1..Len(eppFiles) : eppFiles[i] = epp(p)
    /\ turboFile = Some(turbo_value(turbo_enabled(p)))

\* C18: the power daemon's hardware operations are serialized behind one
\* exclusive lock: when two concurrent set_performance_profile calls for
\* different profiles both return success (every write of both having
\* succeeded), their file writes have not interleaved, so every governor file
\* holds the same governor and governor, energy preference and turbo all
\* belong to one and the same profile.
C18_PowerWritesSerialized ==
    (/\ \A c \in Callers : SetProfileReturnedOk(c) /\ EveryWriteSucceeded(c)
     /\ task[1].profile_enum # task[2].profile_enum)
        => \E p \in PerformanceProfile : HardwareHolds(p)


\* C19: with every I/O step completing and fair lock acquisition, every call
\* in the fan daemon eventually returns: no call holds both locks, a returned
\* call holds none (a register operation that fails at seek, transfer or
\* flush has released the handle), so a later call acquires it and succeeds.
C19_EveryCallReturns ==
    /\ \A c \in Callers : (task[c].pc # "idle") ~> (task[c].pc = "idle")
    /\ [](\A c \in Callers :
            /\ ~(ecLock = c /\ profLock = c)
            /\ task[c].pc = "idle" => (ecLock # c /\ profLock # c)
            /\ ecLock = c => InFlight(c))

\* The MaxPower call of caller 1 failed at the flush of its last write; the
\* Silent call of caller 2 took the handle after it, wrote the GPU speed over
\* the failed call's and succeeded.
C19_Witness ==
    /\ task[1].op = "set_fan_profile" /\ task[1].pc = "idle" /\ task[1].ret = "Failed"
    /\ task[1].profile_enum = "FanProfile::MaxPower" /\ Len(landed[1]) = 5
    /\ task[2].op = "set_fan_profile" /\ task[2].pc = "idle" /\ task[2].ret = "Ok"
    /\ task[2].profile_enum = "FanProfile::Silent"
    /\ ec[REG_GPU_FAN_WRITE] = 25


\* The fixed mapping of the power profiles, as documented.
ExpectedGovernor(p) ==
    IF p = "PerformanceProfile::WarSpeed" THEN STR_performance ELSE STR_powersave
ExpectedEpp(p) ==
    CASE p = "PerformanceProfile::Silent" -> STR_power
      [] p = "PerformanceProfile::Balanced" -> STR_balance_performance
      [] p = "PerformanceProfile::WarSpeed" -> STR_performance
\* The turbo file's content: "1" disables turbo, "0" enables it.
ExpectedNoTurbo(p) == IF p = "PerformanceProfile::Silent" THEN <<"1">> ELSE <<"0">>

\* The call of c is a set_performance_profile that returned success.
PowerProfileApplied(c) ==
    task[c].op = "set_performance_profile" /\ task[c].pc = "idle" /\ task[c].ret = "Ok"

\* C20 as stated: after a successful, non-overlapped set_performance_profile(P)
\* every matched governor file holds P's governor, EVERY matched
\* energy-preference file holds P's value, and the turbo file holds "1" iff P
\* is Silent and "0" for Balanced and WarSpeed.
C20_Original ==
    \A c \in Callers :
        PowerProfileApplied(c) =>
            LET P == task[c].profile_enum IN
            /\ \A i \in 1..Len(govFiles) : govFiles[i] = ExpectedGovernor(P)
            /\ \A i \in 1..Len(eppFiles) : eppFiles[i] = ExpectedEpp(P)
            /\ turboFile = Some(ExpectedNoTurbo(P))

\* C20 (amended): after a successful, non-overlapped
\* set_performance_profile(P) every matched governor file holds P's governor,
\* the turbo file holds "1" iff P is Silent and "0" otherwise, and every
\* matched energy-preference file whose write succeeded holds P's value (all
\* of them when no write failed); a file whose write failed was attempted
\* with P's value.
C20_ProfileMapping ==
    \A c \in Callers :
        PowerProfileApplied(c) =>
            LET P == task[c].profile_enum IN
            /\ \A i \in 1..Len(govFiles) : govFiles[i] = ExpectedGovernor(P)
            /\ turboFile = Some(ExpectedNoTurbo(P))
            /\ \A i \in 1..Len(eppFiles) :
                  /\ \E j \in 1..Len(issued[c]) :
                        issued[c][j] = FileWrite("epp", i, ExpectedEpp(P))
                  /\ Landed(c, FileWrite("epp", i, ExpectedEpp(P))) =>
                        eppFiles[i] = ExpectedEpp(P)
            /\ EveryWriteSucceeded(c) =>
                  \A i \in 1..Len(eppFiles) : eppFiles[i] = ExpectedEpp(P)

\* Silent was applied on two CPUs with every write succeeding: turbo is off.
C20_Witness ==
    \E c \in Callers :
        /\ PowerProfileApplied(c)
        /\ task[c].profile_enum = "PerformanceProfile::Silent"
        /\ EveryWriteSucceeded(c)
        /\ Len(govFiles) = 2 /\ Len(eppFiles) = 2
        /\ eppFiles[2] = STR_power
        /\ turboFile = Some(<<"1">>)

====
